---- MODULE Spec2Model ----
(***************************************************************************)
(* pcap-editor: the timestamp transforms (time-compress, time-stretch,     *)
(* dilute, augment), the disorder detector and the comparator, one action  *)
(* per step of each handler.                                               *)
(*                                                                         *)
(* Representation.                                                         *)
(*  - A packet is [ts_sec, ts_usec, incl_len, orig_len, data], the fields  *)
(*    of pcap_file's PacketHeader plus the payload.                        *)
(*  - An f64 factor is the exact fraction [num, den], den > 0.  Only       *)
(*    factors that f64 holds exactly are drawn, and every offset of the    *)
(*    model is far below 2^51 microseconds, so the f64 quotient or product *)
(*    followed by f64::round() is the exact fraction rounded half away     *)
(*    from zero, which RoundHalfAway computes on integers.                 *)
(*  - A u32 field holding x >= 2^31 (the result of `as u32` on a negative  *)
(*    i64) is written as x - 2^32; the values of the model stay inside     *)
(*    (-2^31, 2^31), so the writing is unambiguous.                        *)
(*  - overflow_checks tells whether the build panics on integer overflow   *)
(*    (the debug profile) or wraps (the release profile).                  *)
(***************************************************************************)
EXTENDS Integers, Sequences, FiniteSets, TLC

VARIABLES
    cmd,              \* the subcommand main() dispatches to
    overflow_checks,  \* TRUE: arithmetic overflow panics; FALSE: it wraps
    input,            \* the packets of the input file
    factor,           \* --factor: [num, den] for an f64, an integer for a usize
    pc,               \* position in the handler
    status,           \* "running", "ok", an error kind, or "panic"
    created,          \* File::create(output_path) has happened
    header_written,   \* PcapWriter::with_header has written the file header
    output,           \* the packets written so far by write_packet
    reader,           \* number of packets pcap_reader.next() has returned
    locals,           \* the handler's local variables, by their source names
    log,              \* what the handler has reported (warn!/error!/info!)
    trailing,         \* the input file holds bytes after its last readable packet
    pass,             \* 1: first run; 2: time-stretch run on a time-compress output
    first_input,      \* the input of the first run
    comparison,       \* compare: the packets of the comparison file
    ignore_timestamp  \* compare: --ignore-timestamp

vars == <<cmd, overflow_checks, input, factor, pc, status, created,
          header_written, output, reader, locals, log, trailing, pass,
          first_input, comparison, ignore_timestamp>>

\* what a handler never assigns: the command line, the build and the input file
args == <<cmd, overflow_checks, input, factor, trailing, pass, first_input,
          comparison, ignore_timestamp>>

-----------------------------------------------------------------------------
(* Bounds and input domains *)

MaxLen == 3

\* the longest input stream with non-decreasing timestamps
MaxSortedLen == 10

\* the largest ts_sec of a file the second run is started on: the model's
\* integers are 32 bits wide and hold the i64 microsecond arithmetic only for
\* small seconds
MaxSec == 100

Million == 1000000

Billion == 1000000000

Thousand == 1000

\* the timestamps of the input packets, in increasing order
TimestampSeq == << <<0, 0>>, <<0, 999999>>, <<1, 1>>, <<1, 4>> >>

Timestamps == { TimestampSeq[k] : k \in 1..Len(TimestampSeq) }

BodySeq == << [incl_len |-> 1, orig_len |-> 1, data |-> "a"],
              [incl_len |-> 2, orig_len |-> 3, data |-> "bc"] >>

Bodies == { BodySeq[k] : k \in 1..Len(BodySeq) }

Packet(t, b) ==
    [ts_sec |-> t[1], ts_usec |-> t[2],
     incl_len |-> b.incl_len, orig_len |-> b.orig_len, data |-> b.data]

Packets == { Packet(t, b) : t \in Timestamps, b \in Bodies }

Streams == UNION { [1..n -> Packets] : n \in 0..MaxLen }

\* Longer streams with non-decreasing timestamps: counts[k] packets carry
\* TimestampSeq[k], and the bodies alternate.
RECURSIVE Total(_, _)
Total(counts, k) == IF k = 0 THEN 0 ELSE counts[k] + Total(counts, k - 1)

SortedStream(counts) ==
    [ x \in 1..Total(counts, Len(TimestampSeq)) |->
        LET k == CHOOSE k \in 1..Len(TimestampSeq) :
                     Total(counts, k - 1) < x /\ x <= Total(counts, k)
        IN  Packet(TimestampSeq[k], BodySeq[1 + (x % Len(BodySeq))]) ]

SortedStreams ==
    { SortedStream(counts) :
        counts \in { c \in [1..Len(TimestampSeq) -> 0..MaxSortedLen] :
                        Total(c, Len(TimestampSeq)) <= MaxSortedLen } }

\* --factor values for dilute and augment: 1 is refused
IntFactors == { 1, 2, 3 }

Frac(n, d) == [num |-> n, den |-> d]

\* --factor values for time-compress: 1.0 is refused, the others accepted
CompressFactors == { Frac(1, 1), Frac(3, 2), Frac(2, 1), Frac(4, 1) }

\* --factor values for time-stretch: 0.0 is refused, the others accepted
StretchFactors == { Frac(0, 1), Frac(1, 2), Frac(2, 1), Frac(4, 1) }

-----------------------------------------------------------------------------
(* Integer arithmetic as Rust does it *)

\* i64 `/`: truncates toward zero (b > 0)
TruncDiv(a, b) == IF a >= 0 THEN a \div b ELSE -((-a) \div b)

\* i64 `%`: the remainder has the sign of the dividend (b > 0)
TruncRem(a, b) == a - b * TruncDiv(a, b)

\* f64::round() of the fraction n/d (d > 0): half away from zero
RoundHalfAway(n, d) ==
    IF n >= 0 THEN (2 * n + d) \div (2 * d)
              ELSE -((2 * (-n) + d) \div (2 * d))

\* ((v as u32) / 1_000_000) for an i64 v in (-2^31, 2^31):
\* for v < 0 the cast gives 2^32 + v, and 2^32 = 4294 * 1_000_000 + 967296
U32DivMillion(v) ==
    IF v >= 0 THEN v \div Million
              ELSE 4294 + ((967296 + v) \div Million)

\* ((v as u32) % 1_000_000) for an i64 v in (-2^31, 2^31)
U32ModMillion(v) ==
    IF v >= 0 THEN v % Million
              ELSE (967296 + v) % Million

\* u32 `a + b` overflows (a as written above, 0 <= b < 2^31)
U32AddOverflows(a, b) == a < 0 /\ a + b >= 0

\* total microseconds of packet p's timestamp relative to (base_sec, base_usec)
TotalMicros(p, base_sec, base_usec) ==
    LET time_diff_sec  == p.ts_sec - base_sec
        time_diff_usec == p.ts_usec - base_usec
    IN  time_diff_sec * Million + time_diff_usec

\* integer division in place of round()
CompressedMicrosTruncated(total_micros, f) == TruncDiv(total_micros * f.den, f.num)

CompressedMicros(total_micros, f) == RoundHalfAway(total_micros * f.den, f.num)

StretchedMicros(total_micros, f) == RoundHalfAway(total_micros * f.num, f.den)

\* new_sec, new_usec, and the carry of new_usec `as u32`
NewSec(base_sec, micros) == base_sec + TruncDiv(micros, Million)

NewUsec(base_usec, micros) == base_usec + TruncRem(micros, Million)

\* the u32 addition new_sec + new_usec / 1_000_000 overflows
AdjustOverflows(base_sec, base_usec, micros) ==
    U32AddOverflows(NewSec(base_sec, micros),
                    U32DivMillion(NewUsec(base_usec, micros)))

AdjustedSec(base_sec, base_usec, micros) ==
    NewSec(base_sec, micros) + U32DivMillion(NewUsec(base_usec, micros))

\* the microseconds written without the reduction modulo 1_000_000
AdjustedUsecUnreduced(base_usec, micros) == NewUsec(base_usec, micros)

AdjustedUsec(base_usec, micros) == U32ModMillion(NewUsec(base_usec, micros))

\* the packet with its header's timestamp replaced
Retimed(p, sec, usec) == [p EXCEPT !.ts_sec = sec, !.ts_usec = usec]

-----------------------------------------------------------------------------
(* time-compress: pcap_time_compressor *)

CompressValidate ==
    /\ cmd = "compress" /\ pc = "entry"
    /\ IF factor.num <= factor.den
       THEN status' = "InvalidParameter" /\ pc' = "done"
       ELSE status' = status /\ pc' = "create"
    /\ UNCHANGED <<args, created, header_written, output, reader, locals, log>>

CompressCreate ==
    /\ cmd = "compress" /\ pc = "create"
    /\ created' = TRUE
    /\ header_written' = TRUE
    /\ pc' = "first"
    /\ UNCHANGED <<args, status, output, reader, locals, log>>

CompressFirst ==
    /\ cmd = "compress" /\ pc = "first"
    /\ IF Len(input) = 0
       THEN /\ status' = "EmptyStream" /\ pc' = "done"
            /\ UNCHANGED <<output, reader, locals>>
       ELSE /\ locals' = [base_sec |-> input[1].ts_sec,
                          base_usec |-> input[1].ts_usec,
                          packet_count |-> 1]
            /\ output' = Append(output, input[1])
            /\ reader' = 1
            /\ pc' = "loop"
            /\ status' = status
    /\ UNCHANGED <<args, created, header_written, log>>

CompressPacket ==
    /\ cmd = "compress" /\ pc = "loop" /\ reader < Len(input)
    /\ LET packet == input[reader + 1]
           total_micros == TotalMicros(packet, locals.base_sec, locals.base_usec)
           compressed_micros == CompressedMicros(total_micros, factor)
       IN  /\ reader' = reader + 1
           /\ locals' = [locals EXCEPT !.packet_count = @ + 1]
           /\ IF overflow_checks
                 /\ AdjustOverflows(locals.base_sec, locals.base_usec, compressed_micros)
              THEN status' = "panic" /\ pc' = "done" /\ output' = output
              ELSE /\ output' = Append(output,
                        Retimed(packet,
                            AdjustedSec(locals.base_sec, locals.base_usec, compressed_micros),
                            AdjustedUsec(locals.base_usec, compressed_micros)))
                   /\ UNCHANGED <<status, pc>>
    /\ UNCHANGED <<args, created, header_written, log>>

CompressFinish ==
    /\ cmd = "compress" /\ pc = "loop" /\ reader = Len(input)
    /\ status' = "ok"
    /\ pc' = "done"
    /\ log' = Append(log, [level |-> "info", packets |-> locals.packet_count])
    /\ UNCHANGED <<args, created, header_written, output, reader, locals>>

-----------------------------------------------------------------------------
(* time-stretch: pcap_time_dilator *)

StretchValidate ==
    /\ cmd = "stretch" /\ pc = "entry"
    /\ IF factor.num <= 0
       THEN status' = "InvalidParameter" /\ pc' = "done"
       ELSE status' = status /\ pc' = "create"
    /\ UNCHANGED <<args, created, header_written, output, reader, locals, log>>

StretchCreate ==
    /\ cmd = "stretch" /\ pc = "create"
    /\ created' = TRUE
    /\ header_written' = TRUE
    /\ pc' = "first"
    /\ UNCHANGED <<args, status, output, reader, locals, log>>

StretchFirst ==
    /\ cmd = "stretch" /\ pc = "first"
    /\ IF Len(input) = 0
       THEN /\ status' = "EmptyStream" /\ pc' = "done"
            /\ UNCHANGED <<output, reader, locals>>
       ELSE /\ locals' = [base_sec |-> input[1].ts_sec,
                          base_usec |-> input[1].ts_usec,
                          packet_count |-> 1]
            /\ output' = Append(output, input[1])
            /\ reader' = 1
            /\ pc' = "loop"
            /\ status' = status
    /\ UNCHANGED <<args, created, header_written, log>>

StretchPacket ==
    /\ cmd = "stretch" /\ pc = "loop" /\ reader < Len(input)
    /\ LET packet == input[reader + 1]
           total_micros == TotalMicros(packet, locals.base_sec, locals.base_usec)
           stretched_micros == StretchedMicros(total_micros, factor)
       IN  /\ reader' = reader + 1
           /\ locals' = [locals EXCEPT !.packet_count = @ + 1]
           /\ IF overflow_checks
                 /\ AdjustOverflows(locals.base_sec, locals.base_usec, stretched_micros)
              THEN status' = "panic" /\ pc' = "done" /\ output' = output
              ELSE /\ output' = Append(output,
                        Retimed(packet,
                            AdjustedSec(locals.base_sec, locals.base_usec, stretched_micros),
                            AdjustedUsec(locals.base_usec, stretched_micros)))
                   /\ UNCHANGED <<status, pc>>
    /\ UNCHANGED <<args, created, header_written, log>>

StretchFinish ==
    /\ cmd = "stretch" /\ pc = "loop" /\ reader = Len(input)
    /\ status' = "ok"
    /\ pc' = "done"
    /\ log' = Append(log, [level |-> "info", packets |-> locals.packet_count])
    /\ UNCHANGED <<args, created, header_written, output, reader, locals>>

\* main() run again: time-stretch, same factor, on the file time-compress wrote
StretchCompressed ==
    /\ cmd = "compress" /\ pc = "done" /\ status = "ok" /\ pass = 1
    /\ \A k \in 1..Len(output) : output[k].ts_sec \in 0..MaxSec
    /\ cmd' = "stretch"
    /\ input' = output
    /\ pc' = "entry"
    /\ status' = "running"
    /\ created' = FALSE
    /\ header_written' = FALSE
    /\ output' = << >>
    /\ reader' = 0
    /\ locals' = << >>
    /\ pass' = 2
    /\ log' = << >>
    /\ UNCHANGED <<overflow_checks, factor, trailing, first_input,
                   comparison, ignore_timestamp>>

-----------------------------------------------------------------------------
(* dilute: pcap_dilute_timed *)

Abs(x) == IF x >= 0 THEN x ELSE -x

\* The order of total_diff.abs() among the packets of one scan, the target
\* being (target_sec, target_usec).  A target_usec written negative stands
\* for 2^32 + target_usec: every total_diff of the scan is then negative and
\* its absolute value is 2^32 minus the number below, negated here so that
\* the order is kept without the 2^32.
DiffAbs(p, target_sec, target_usec) ==
    LET sec_diff   == p.ts_sec - target_sec
        usec_diff  == p.ts_usec - target_usec
        total_diff == (sec_diff * Million) + usec_diff
    IN  IF target_usec >= 0 THEN Abs(total_diff) ELSE -total_diff

\* The inner loop `for j in packet_index..original_packets.len()`, from j on
\* (0-based), with best_index and best_diff as they stand; best_set is FALSE
\* while best_diff is still i64::MAX.  The result is the final best_index.
RECURSIVE NearestFrom(_, _, _, _, _, _, _)
NearestFrom(original_packets, j, target_sec, target_usec, best_index, best_diff, best_set) ==
    IF j >= Len(original_packets) THEN best_index
    ELSE LET d == DiffAbs(original_packets[j + 1], target_sec, target_usec)
         IN  IF ~best_set \/ d < best_diff
             THEN NearestFrom(original_packets, j + 1, target_sec, target_usec,
                              j, d, TRUE)
             ELSE IF d > best_diff
             THEN best_index
             ELSE NearestFrom(original_packets, j + 1, target_sec, target_usec,
                              best_index, best_diff, best_set)

\* The next target time point, <<current_target_sec, current_target_usec>>
\* after `if i > 0 { ... }`.  cur_usec written negative stands for 2^32 +
\* cur_usec, which as an i64 is above 1_000_000 whatever the interval adds.
NextTarget(cur_sec, cur_usec, ideal_interval_us) ==
    IF cur_usec < 0
    THEN <<cur_sec + U32DivMillion(cur_usec + ideal_interval_us),
           U32ModMillion(cur_usec + ideal_interval_us)>>
    ELSE LET new_usec == cur_usec + ideal_interval_us
         IN  IF new_usec >= Million
             THEN <<cur_sec + (new_usec \div Million), new_usec % Million>>
             ELSE <<cur_sec, new_usec>>

DiluteValidate ==
    /\ cmd = "dilute" /\ pc = "entry"
    /\ IF factor < 2
       THEN status' = "InvalidParameter" /\ pc' = "done"
       ELSE status' = status /\ pc' = "create"
    /\ UNCHANGED <<args, created, header_written, output, reader, locals, log>>

DiluteCreate ==
    /\ cmd = "dilute" /\ pc = "create"
    /\ created' = TRUE
    /\ header_written' = TRUE
    /\ pc' = "read"
    /\ UNCHANGED <<args, status, output, reader, locals, log>>

\* read every packet, then the two count checks and the set-up of the loop
DiluteRead ==
    /\ cmd = "dilute" /\ pc = "read"
    /\ reader' = Len(input)
    /\ IF Len(input) = 0
       THEN status' = "EmptyStream" /\ pc' = "done" /\ locals' = locals
       ELSE IF Len(input) < factor
       THEN status' = "InsufficientPackets" /\ pc' = "done" /\ locals' = locals
       ELSE LET first_sec  == input[1].ts_sec
                first_usec == input[1].ts_usec
                last_sec   == input[Len(input)].ts_sec
                last_usec  == input[Len(input)].ts_usec
                total_duration_us ==
                    ((last_sec - first_sec) * Million) + (last_usec - first_usec)
                target_packet_count == Len(input) \div factor
            IN  /\ locals' = [original_packets |-> input,
                              total_duration_us |-> total_duration_us,
                              target_packet_count |-> target_packet_count,
                              ideal_interval_us |->
                                  TruncDiv(total_duration_us, target_packet_count),
                              current_target_sec |-> first_sec,
                              current_target_usec |-> first_usec,
                              packet_index |-> 0,
                              packets_written |-> 0,
                              i |-> 0,
                              selected |-> << >>]
                /\ status' = status
                /\ pc' = "loop"
    /\ UNCHANGED <<args, created, header_written, output, log>>

\* one iteration of `for i in 0..target_packet_count`
DiluteSelect ==
    /\ cmd = "dilute" /\ pc = "loop" /\ locals.i < locals.target_packet_count
    /\ LET target == IF locals.i > 0
                     THEN NextTarget(locals.current_target_sec,
                                     locals.current_target_usec,
                                     locals.ideal_interval_us)
                     ELSE <<locals.current_target_sec, locals.current_target_usec>>
           best_index == NearestFrom(locals.original_packets, locals.packet_index,
                                     target[1], target[2],
                                     locals.packet_index, 0, FALSE)
       IN  IF best_index >= Len(locals.original_packets)
           THEN \* original_packets[best_index]: index out of bounds
                /\ status' = "panic" /\ pc' = "done"
                /\ locals' = [locals EXCEPT !.current_target_sec = target[1],
                                            !.current_target_usec = target[2],
                                            !.packet_index = best_index + 1]
                /\ output' = output
           ELSE /\ output' = Append(output, locals.original_packets[best_index + 1])
                /\ locals' = [locals EXCEPT !.current_target_sec = target[1],
                                            !.current_target_usec = target[2],
                                            !.packet_index = best_index + 1,
                                            !.packets_written = @ + 1,
                                            !.i = @ + 1,
                                            !.selected = Append(@, best_index)]
                /\ UNCHANGED <<status, pc>>
    /\ UNCHANGED <<args, created, header_written, reader, log>>

DiluteFinish ==
    /\ cmd = "dilute" /\ pc = "loop" /\ locals.i = locals.target_packet_count
    /\ status' = "ok"
    /\ pc' = "done"
    /\ log' = Append(log, [level |-> "info", packets |-> locals.packets_written])
    /\ UNCHANGED <<args, created, header_written, output, reader, locals>>

-----------------------------------------------------------------------------
(* augment: pcap_augment_timed *)

\* (ts_sec as u128) * 1_000_000_000 + ts_usec as u128 * 1000
Nanos(p) == (p.ts_sec * Billion) + (p.ts_usec * Thousand)

\* <<new_sec, new_usec>> from new_ns: seconds, and the residual nanoseconds
\* turned to microseconds
SecUsec(new_sec_u32, new_ns_residual) ==
    <<new_sec_u32, new_ns_residual \div Thousand>>

\* What last_ns - first_ns wraps to when last_ns < first_ns and overflow is
\* not checked is 2^128 minus the difference: neither it nor the interval and
\* the new_ns computed from it fit the integers of the model.  Each is stood
\* for by a sample of <<(new_ns / 1_000_000_000) as u32, new_ns % 1_000_000_000>>.
WrappedSamples == { <<5, 0>>, <<7, 999999999>> }

\* the span divided by the number of packets, not of intervals
IdealIntervalNsPerPacket(total_duration_ns, target_packet_count) ==
    total_duration_ns \div target_packet_count

IdealIntervalNs(total_duration_ns, target_packet_count) ==
    IF target_packet_count > 1
    THEN total_duration_ns \div (target_packet_count - 1)
    ELSE 0

\* the packets the loop `for i in 0..target_packet_count` pushes
NewPackets(original_packets, first_ns, ideal_interval_ns, target_packet_count) ==
    [ x \in 1..target_packet_count |->
        LET i == x - 1
            new_ns == first_ns + (ideal_interval_ns * i)
            t == SecUsec(new_ns \div Billion, new_ns % Billion)
            orig_index == i % Len(original_packets)
        IN  Retimed(original_packets[orig_index + 1], t[1], t[2]) ]

\* the same loop after the wrap: i = 0 gives first_ns itself
NewPacketsWrapped(original_packets, first_ns, w, target_packet_count) ==
    [ x \in 1..target_packet_count |->
        LET i == x - 1
            t == IF i = 0 THEN SecUsec(first_ns \div Billion, first_ns % Billion)
                          ELSE SecUsec(w[1], w[2])
            orig_index == i % Len(original_packets)
        IN  Retimed(original_packets[orig_index + 1], t[1], t[2]) ]

AugmentValidate ==
    /\ cmd = "augment" /\ pc = "entry"
    /\ IF factor < 2
       THEN status' = "InvalidParameter" /\ pc' = "done"
       ELSE status' = status /\ pc' = "create"
    /\ UNCHANGED <<args, created, header_written, output, reader, locals, log>>

AugmentCreate ==
    /\ cmd = "augment" /\ pc = "create"
    /\ created' = TRUE
    /\ header_written' = TRUE
    /\ pc' = "read"
    /\ UNCHANGED <<args, status, output, reader, locals, log>>

\* read every packet, the emptiness check, and the span
AugmentRead ==
    /\ cmd = "augment" /\ pc = "read"
    /\ reader' = Len(input)
    /\ IF Len(input) = 0
       THEN status' = "EmptyStream" /\ pc' = "done" /\ locals' = locals
       ELSE LET first_ns == Nanos(input[1])
                last_ns  == Nanos(input[Len(input)])
            IN  IF overflow_checks /\ last_ns < first_ns
                THEN \* last_ns - first_ns: attempt to subtract with overflow
                     status' = "panic" /\ pc' = "done" /\ locals' = locals
                ELSE /\ locals' = [original_packets |-> input,
                                   first_ns |-> first_ns,
                                   last_ns |-> last_ns,
                                   target_packet_count |-> Len(input) * factor,
                                   new_packets |-> << >>,
                                   written |-> 0]
                     /\ status' = status
                     /\ pc' = "generate"
    /\ UNCHANGED <<args, created, header_written, output, log>>

\* the interval and the loop that builds new_packets
AugmentGenerate ==
    /\ cmd = "augment" /\ pc = "generate"
    /\ IF locals.last_ns >= locals.first_ns
       THEN LET total_duration_ns == locals.last_ns - locals.first_ns
                ideal_interval_ns ==
                    IdealIntervalNs(total_duration_ns, locals.target_packet_count)
            IN  locals' = [locals EXCEPT !.new_packets =
                    NewPackets(locals.original_packets, locals.first_ns,
                               ideal_interval_ns, locals.target_packet_count)]
       ELSE \E w \in WrappedSamples :
                locals' = [locals EXCEPT !.new_packets =
                    NewPacketsWrapped(locals.original_packets, locals.first_ns,
                                      w, locals.target_packet_count)]
    /\ pc' = "write"
    /\ UNCHANGED <<args, status, created, header_written, output, reader, log>>

\* one iteration of `for packet in new_packets`
AugmentWrite ==
    /\ cmd = "augment" /\ pc = "write"
    /\ locals.written < Len(locals.new_packets)
    /\ output' = Append(output, locals.new_packets[locals.written + 1])
    /\ locals' = [locals EXCEPT !.written = @ + 1]
    /\ UNCHANGED <<args, pc, status, created, header_written, reader, log>>

AugmentFinish ==
    /\ cmd = "augment" /\ pc = "write"
    /\ locals.written = Len(locals.new_packets)
    /\ status' = "ok"
    /\ pc' = "done"
    /\ log' = Append(log, [level |-> "info", packets |-> Len(locals.new_packets)])
    /\ UNCHANGED <<args, created, header_written, output, reader, locals>>

-----------------------------------------------------------------------------
(* disorder-detect: detect_pcap_disorder *)

\* Duration::new(secs, nanos): nanoseconds beyond a second carry over
DurationNew(secs, nanos) == <<secs + (nanos \div Billion), nanos % Billion>>

\* a comparison of the seconds alone
DurationLessSecs(a, b) == a[1] < b[1]

\* Duration's `<`
DurationLess(a, b) == a[1] < b[1] \/ (a[1] = b[1] /\ a[2] < b[2])

\* Duration's `-`, for b <= a
DurationSub(a, b) ==
    IF a[2] >= b[2] THEN <<a[1] - b[1], a[2] - b[2]>>
                    ELSE <<a[1] - b[1] - 1, a[2] + Billion - b[2]>>

\* Option<Duration>::None
None == <<"None">>

DetectOpen ==
    /\ cmd = "detect" /\ pc = "entry"
    /\ locals' = [prev_timestamp |-> None,
                  disorder_count |-> 0,
                  packet_count |-> 0,
                  read_errors |-> 0]
    /\ pc' = "loop"
    /\ UNCHANGED <<args, status, created, header_written, output, reader, log>>

\* one iteration of `while let Some(packet) = pcap_reader.next()`
DetectPacket ==
    /\ cmd = "detect" /\ pc = "loop" /\ reader < Len(input)
    /\ LET packet == input[reader + 1]
           packet_count == locals.packet_count + 1
           current_timestamp == DurationNew(packet.ts_sec, packet.ts_usec * Thousand)
           disorder == /\ locals.prev_timestamp # None
                       /\ DurationLess(current_timestamp, locals.prev_timestamp)
       IN  /\ reader' = reader + 1
           /\ locals' = [locals EXCEPT
                  !.packet_count = packet_count,
                  !.disorder_count = IF disorder THEN @ + 1 ELSE @,
                  !.prev_timestamp = current_timestamp]
           /\ log' = IF disorder
                     THEN Append(log, [level |-> "warn", what |-> "disorder",
                                       n |-> packet_count,
                                       diff |-> DurationSub(locals.prev_timestamp,
                                                            current_timestamp)])
                     ELSE log
    /\ UNCHANGED <<args, pc, status, created, header_written, output>>

\* the end of the loop, the check of the file position, and the report
DetectReport ==
    /\ cmd = "detect" /\ pc = "loop" /\ reader = Len(input)
    /\ LET read_errors == IF trailing THEN 1 ELSE 0
           l1 == IF trailing
                 THEN Append(log, [level |-> "warn", what |-> "truncated",
                                   n |-> locals.packet_count, diff |-> <<0, 0>>])
                 ELSE log
           l2 == IF locals.disorder_count > 0
                 THEN Append(l1, [level |-> "error", what |-> "disorder_count",
                                  n |-> locals.disorder_count, diff |-> <<0, 0>>])
                 ELSE l1
           l3 == IF read_errors > 0
                 THEN Append(l2, [level |-> "error", what |-> "read_errors",
                                  n |-> read_errors, diff |-> <<0, 0>>])
                 ELSE l2
       IN  /\ locals' = [locals EXCEPT !.read_errors = read_errors]
           /\ log' = Append(l3, [level |-> "info",
                                 what |-> IF locals.disorder_count = 0 /\ read_errors = 0
                                          THEN "no_disorder" ELSE "packet_count",
                                 n |-> locals.packet_count, diff |-> <<0, 0>>])
    /\ status' = "ok"
    /\ pc' = "done"
    /\ UNCHANGED <<args, created, header_written, output, reader>>

-----------------------------------------------------------------------------
(* compare: pcap_comparative_analyzer *)

\* the longest stream of the comparator's enumerated pairs
MaxCmpLen == 3

max_lookahead == 100

\* The records of the compared files.  The second has the body of the first
\* at another time; the fourth has the payload of the first and another
\* orig_len.
CompareRecordSeq ==
    << Packet(<<0, 0>>, BodySeq[1]),
       Packet(<<1, 1>>, BodySeq[1]),
       Packet(<<0, 0>>, BodySeq[2]),
       Packet(<<0, 0>>, [incl_len |-> 1, orig_len |-> 2, data |-> "a"]) >>

CompareRecords == { CompareRecordSeq[k] : k \in 1..Len(CompareRecordSeq) }

CompareStreams == UNION { [1..n -> CompareRecords] : n \in 0..MaxCmpLen }

Repeat(r, n) == [ x \in 1..n |-> r ]

\* Pairs of streams longer than the lookahead.  In the first two the record
\* that A starts with is the last of B, at index max_lookahead - 1 (the last
\* index of the first window) or at index max_lookahead (the first index
\* outside it); in the third the first records of A and B occur nowhere
\* else; in the last two B is A without its first record, which A repeats
\* at index max_lookahead or max_lookahead + 1.
LongPairs ==
    LET x == CompareRecordSeq[1]
        y == CompareRecordSeq[3]
        z == CompareRecordSeq[4]
    IN  { << <<x>> \o Repeat(y, max_lookahead - 1),
             Repeat(y, max_lookahead - 1) \o <<x>> >>,
          << <<x>> \o Repeat(y, max_lookahead),
             Repeat(y, max_lookahead) \o <<x>> >>,
          << <<x>> \o Repeat(y, max_lookahead),
             <<z>> \o Repeat(y, max_lookahead) >>,
          << <<x>> \o Repeat(y, max_lookahead - 1) \o <<x>>,
             Repeat(y, max_lookahead - 1) \o <<x>> >>,
          << <<x>> \o Repeat(y, max_lookahead) \o <<x>>,
             Repeat(y, max_lookahead) \o <<x>> >> }

\* The bytes given to the hasher.  SeaHasher is taken to be injective on
\* them: the u64 it returns stands for the buffer itself.  The two lengths
\* are written with a fixed width, so the buffer determines the triple.
Hash(packet, ignore) ==
    IF ignore THEN <<packet.incl_len, packet.orig_len, packet.data>>
              ELSE <<packet.data>>

\* the payload alone hashed in both modes
read_and_hash_payloads(stream, ignore) ==
    [ x \in 1..Len(stream) |->
        [original |-> stream[x], hash |-> Hash(stream[x], FALSE)] ]

read_and_hash_packets(stream, ignore) ==
    [ x \in 1..Len(stream) |->
        [original |-> stream[x], hash |-> Hash(stream[x], ignore)] ]

Min(a, b) == IF a < b THEN a ELSE b

Least(S) == CHOOSE k \in S : \A m \in S : k <= m

\* the k of `for k in j..max_j` at which packets1[i].hash == packets2[k].hash
\* (indices count from 0, as in the source)
MatchesInB(packets1, packets2, i, j) ==
    LET max_j == Min(j + max_lookahead, Len(packets2))
    IN  { k \in j..(max_j - 1) : packets1[i + 1].hash = packets2[k + 1].hash }

\* the k of `for k in i..max_i` at which packets1[k].hash == packets2[j].hash
MatchesInA(packets1, packets2, i, j) ==
    LET max_i == Min(i + max_lookahead, Len(packets1))
    IN  { k \in i..(max_i - 1) : packets1[k + 1].hash = packets2[j + 1].hash }

\* the searches in the other order
TransitionResyncAFirst(packets1, packets2, i, j) ==
    IF packets1[i + 1].hash = packets2[j + 1].hash THEN "match"
    ELSE IF MatchesInA(packets1, packets2, i, j) # {} THEN "resync_a"
    ELSE IF MatchesInB(packets1, packets2, i, j) # {} THEN "resync_b"
    ELSE "substitution"

\* the branch one iteration of the main loop takes (i and j in range)
Transition(packets1, packets2, i, j) ==
    IF packets1[i + 1].hash = packets2[j + 1].hash THEN "match"
    ELSE IF MatchesInB(packets1, packets2, i, j) # {} THEN "resync_b"
    ELSE IF MatchesInA(packets1, packets2, i, j) # {} THEN "resync_a"
    ELSE "substitution"

\* the pushes of `for idx in from..k`, the match included
SkippedThrough(packets, from, k) ==
    [ x \in 1..(k + 1 - from) |-> <<from + x - 1, packets[from + x]>> ]

\* the pushes of `for idx in from..k`: (idx, packets[idx]) for from <= idx < k
Skipped(packets, from, k) ==
    [ x \in 1..(k - from) |-> <<from + x - 1, packets[from + x]>> ]

\* the cursor left on the match
OnMatch(k) == k

\* the cursor after a match at k: `j = k + 1`, `i = k + 1`
PastMatch(k) == k + 1

InMainLoop ==
    /\ cmd = "compare" /\ pc = "main"
    /\ locals.i < Len(locals.packets1) /\ locals.j < Len(locals.packets2)

\* both files are read and hashed; i = 0, j = 0 and the two lists are empty.
\* `matched` is not in the source: it records the pairs (i, j) the loop
\* takes as the same record.
CompareRead ==
    /\ cmd = "compare" /\ pc = "entry"
    /\ locals' = [packets1 |-> read_and_hash_packets(input, ignore_timestamp),
                  packets2 |-> read_and_hash_packets(comparison, ignore_timestamp),
                  i |-> 0,
                  j |-> 0,
                  missing_packets |-> << >>,
                  extra_packets |-> << >>,
                  matched |-> << >>]
    /\ pc' = "main"
    /\ UNCHANGED <<args, status, created, header_written, output, reader, log>>

\* packets1[i].hash == packets2[j].hash
CompareMatch ==
    /\ InMainLoop
    /\ Transition(locals.packets1, locals.packets2, locals.i, locals.j) = "match"
    /\ locals' = [locals EXCEPT
           !.i = @ + 1,
           !.j = @ + 1,
           !.matched = Append(@, <<locals.i, locals.j>>)]
    /\ UNCHANGED <<args, pc, status, created, header_written, output, reader, log>>

\* the current packet of pcap1 is found in pcap2 at k
CompareResyncB ==
    /\ InMainLoop
    /\ Transition(locals.packets1, locals.packets2, locals.i, locals.j) = "resync_b"
    /\ LET k == Least(MatchesInB(locals.packets1, locals.packets2,
                                 locals.i, locals.j))
       IN  locals' = [locals EXCEPT
               !.extra_packets = @ \o Skipped(locals.packets2, locals.j, k),
               !.j = PastMatch(k),
               !.i = @ + 1,
               !.matched = Append(@, <<locals.i, k>>)]
    /\ UNCHANGED <<args, pc, status, created, header_written, output, reader, log>>

\* the current packet of pcap2 is found in pcap1 at k
CompareResyncA ==
    /\ InMainLoop
    /\ Transition(locals.packets1, locals.packets2, locals.i, locals.j) = "resync_a"
    /\ LET k == Least(MatchesInA(locals.packets1, locals.packets2,
                                 locals.i, locals.j))
       IN  locals' = [locals EXCEPT
               !.missing_packets = @ \o Skipped(locals.packets1, locals.i, k),
               !.i = PastMatch(k),
               !.j = @ + 1,
               !.matched = Append(@, <<k, locals.j>>)]
    /\ UNCHANGED <<args, pc, status, created, header_written, output, reader, log>>

\* no match in either window
CompareSubstitute ==
    /\ InMainLoop
    /\ Transition(locals.packets1, locals.packets2, locals.i, locals.j) = "substitution"
    /\ locals' = [locals EXCEPT
           !.missing_packets = Append(@, <<locals.i, locals.packets1[locals.i + 1]>>),
           !.extra_packets = Append(@, <<locals.j, locals.packets2[locals.j + 1]>>),
           !.i = @ + 1,
           !.j = @ + 1]
    /\ UNCHANGED <<args, pc, status, created, header_written, output, reader, log>>

\* one iteration of `while i < packets1.len()`
CompareTailA ==
    /\ cmd = "compare" /\ pc = "main" /\ ~InMainLoop
    /\ locals.i < Len(locals.packets1)
    /\ locals' = [locals EXCEPT
           !.missing_packets = Append(@, <<locals.i, locals.packets1[locals.i + 1]>>),
           !.i = @ + 1]
    /\ UNCHANGED <<args, pc, status, created, header_written, output, reader, log>>

\* one iteration of `while j < packets2.len()`
CompareTailB ==
    /\ cmd = "compare" /\ pc = "main"
    /\ locals.i >= Len(locals.packets1)
    /\ locals.j < Len(locals.packets2)
    /\ locals' = [locals EXCEPT
           !.extra_packets = Append(@, <<locals.j, locals.packets2[locals.j + 1]>>),
           !.j = @ + 1]
    /\ UNCHANGED <<args, pc, status, created, header_written, output, reader, log>>

\* print_comparison_results and Ok(())
CompareReport ==
    /\ cmd = "compare" /\ pc = "main"
    /\ locals.i >= Len(locals.packets1)
    /\ locals.j >= Len(locals.packets2)
    /\ log' = Append(log, [level |-> "print",
                           what |-> IF locals.missing_packets = << >>
                                       /\ locals.extra_packets = << >>
                                    THEN "identical" ELSE "differences",
                           n |-> Len(locals.missing_packets),
                           diff |-> <<Len(locals.extra_packets), 0>>])
    /\ status' = "ok"
    /\ pc' = "done"
    /\ UNCHANGED <<args, created, header_written, output, reader, locals>>

-----------------------------------------------------------------------------
(* Specifications *)

Start(c, in, f, t) ==
    /\ cmd = c
    /\ input = in
    /\ factor = f
    /\ overflow_checks \in BOOLEAN
    /\ pc = "entry"
    /\ status = "running"
    /\ created = FALSE
    /\ header_written = FALSE
    /\ output = << >>
    /\ reader = 0
    /\ locals = << >>
    /\ log = << >>
    /\ trailing = t
    /\ pass = 1
    /\ first_input = in
    /\ comparison = << >>
    /\ ignore_timestamp = FALSE

InitScale ==
    \E in \in Streams :
        \/ \E f \in CompressFactors : Start("compress", in, f, FALSE)
        \/ \E f \in StretchFactors : Start("stretch", in, f, FALSE)

NextScale ==
    \/ CompressValidate \/ CompressCreate \/ CompressFirst
    \/ CompressPacket \/ CompressFinish
    \/ StretchValidate \/ StretchCreate \/ StretchFirst
    \/ StretchPacket \/ StretchFinish
    \/ StretchCompressed

SpecScale == InitScale /\ [][NextScale]_vars

InitDilute ==
    \E in \in Streams \cup SortedStreams : \E k \in IntFactors :
        Start("dilute", in, k, FALSE)

NextDilute ==
    \/ DiluteValidate \/ DiluteCreate \/ DiluteRead
    \/ DiluteSelect \/ DiluteFinish

SpecDilute == InitDilute /\ [][NextDilute]_vars

InitAugment ==
    \E in \in Streams : \E m \in IntFactors : Start("augment", in, m, FALSE)

NextAugment ==
    \/ AugmentValidate \/ AugmentCreate \/ AugmentRead
    \/ AugmentGenerate \/ AugmentWrite \/ AugmentFinish

SpecAugment == InitAugment /\ [][NextAugment]_vars

InitDetect ==
    \E in \in Streams : \E t \in BOOLEAN : Start("detect", in, 0, t)

NextDetect == DetectOpen \/ DetectPacket \/ DetectReport

SpecDetect == InitDetect /\ [][NextDetect]_vars

\* the four transforms
InitTransform == InitScale \/ InitDilute \/ InitAugment

NextTransform == NextScale \/ NextDilute \/ NextAugment

SpecTransform == InitTransform /\ [][NextTransform]_vars

\* Every pair of short streams, and the long pairs.  The handler has no
\* arithmetic that can overflow (i + max_lookahead is far below the usize
\* range), so the two builds run alike and one stands for both.
InitCompare ==
    \E ignore \in BOOLEAN :
        \E pair \in (CompareStreams \X CompareStreams) \cup LongPairs :
            /\ cmd = "compare"
            /\ input = pair[1]
            /\ comparison = pair[2]
            /\ ignore_timestamp = ignore
            /\ factor = 0
            /\ overflow_checks = FALSE
            /\ pc = "entry"
            /\ status = "running"
            /\ created = FALSE
            /\ header_written = FALSE
            /\ output = << >>
            /\ reader = 0
            /\ locals = << >>
            /\ log = << >>
            /\ trailing = FALSE
            /\ pass = 1
            /\ first_input = pair[1]

NextCompare ==
    \/ CompareRead
    \/ CompareMatch \/ CompareResyncB \/ CompareResyncA \/ CompareSubstitute
    \/ CompareTailA \/ CompareTailB
    \/ CompareReport

SpecCompare == InitCompare /\ [][NextCompare]_vars

\* the handler is sequential code: a step that can be taken is taken
SpecCompareLive == SpecCompare /\ WF_vars(NextCompare)

Init == InitTransform \/ InitDetect \/ InitCompare

Next == NextTransform \/ NextDetect \/ NextCompare

Spec == Init /\ [][Next]_vars

-----------------------------------------------------------------------------
(* Vocabulary of the properties *)

\* a timestamp as microseconds since the epoch (small, non-negative ts_sec)
Micros(p) == (p.ts_sec * Million) + p.ts_usec

NonDecreasing(s) == \A k \in 1..(Len(s) - 1) : Micros(s[k]) <= Micros(s[k + 1])

StrictlyIncreasing(s) == \A k \in 1..(Len(s) - 1) : Micros(s[k]) < Micros(s[k + 1])

SameBody(p, q) ==
    p.data = q.data /\ p.incl_len = q.incl_len /\ p.orig_len = q.orig_len

SameTime(p, q) == p.ts_sec = q.ts_sec /\ p.ts_usec = q.ts_usec

Span(s) == Micros(s[Len(s)]) - Micros(s[1])

Scaling == cmd \in {"compress", "stretch"}

ValidationError == status \in {"InvalidParameter", "EmptyStream", "InsufficientPackets"}

\* the comparator has returned
CompareDone == cmd = "compare" /\ pc = "done"

\* the entry (idx, packets[idx]) of missing_packets or extra_packets for the
\* record at index idx (from 0) of the stream s
Entry(idx, s) ==
    <<idx, [original |-> s[idx + 1], hash |-> Hash(s[idx + 1], ignore_timestamp)]>>

\* the stream s without its record at index p (from 0)
DeletedAt(s, p) == [ x \in 1..(Len(s) - 1) |-> IF x <= p THEN s[x] ELSE s[x + 1] ]

\* the stream s with the record r put at index q (from 0)
WithRecordAt(s, q, r) ==
    [ x \in 1..(Len(s) + 1) |->
        IF x <= q THEN s[x] ELSE IF x = q + 1 THEN r ELSE s[x - 1] ]

\* the fingerprint of the record at index p of s is that of one of the
\* max_lookahead records that follow it
RepeatedInWindow(s, p) ==
    \E k \in (p + 1)..Min(p + max_lookahead, Len(s) - 1) :
        Hash(s[k + 1], ignore_timestamp) = Hash(s[p + 1], ignore_timestamp)

\* the fingerprint of r is that of no record of s
Novel(r, s) ==
    \A k \in 1..Len(s) : Hash(s[k], ignore_timestamp) # Hash(r, ignore_timestamp)

-----------------------------------------------------------------------------
(* Properties *)

\* C1: a run of Compress, Stretch, Dilute or Augment that ends with a
\* validation error (factor out of range, no records, fewer records than the
\* Dilute factor) has not created the output file, nor written the file
\* header or a record.
C1_NoOutputOnValidationError ==
    (cmd \in {"compress", "stretch", "dilute", "augment"} /\ ValidationError)
        => (~created /\ ~header_written /\ output = << >>)

\* C2: on a non-empty input and a valid factor, Compress and Stretch end
\* with as many records as the input, in the same order, each with the
\* payload and the two lengths of the input record at its index, and with the
\* first record's timestamp unchanged.
C2_ScalePreservesRecords ==
    (Scaling /\ pass = 1 /\ pc = "done" /\ status # "InvalidParameter"
             /\ Len(input) > 0)
        => /\ status = "ok"
           /\ Len(output) = Len(input)
           /\ \A k \in 1..Len(input) : SameBody(output[k], input[k])
           /\ SameTime(output[1], input[1])

\* <<seconds, microseconds>> of t0 + round(delta / factor) for Compress,
\* t0 + round(delta * factor) for Stretch
ScaledInstant(p, t0, f, c) ==
    LET delta == Micros(p) - Micros(t0)
        scaled == IF c = "compress" THEN RoundHalfAway(delta * f.den, f.num)
                                    ELSE RoundHalfAway(delta * f.num, f.den)
        total == Micros(t0) + scaled
    IN  <<total \div Million, total % Million>>

\* C3: every record after the first that Compress or Stretch has written
\* carries the timestamp t0 + round(delta / factor), respectively
\* t0 + round(delta * factor), also when the record is earlier than the first
\* (an instant before the epoch, which no timestamp represents, aside).
C3_ScaledTimestampExact ==
    Scaling =>
        \A k \in 2..Len(output) :
            ScaledInstant(input[k], input[1], factor, cmd)[1] >= 0 =>
                <<output[k].ts_sec, output[k].ts_usec>>
                    = ScaledInstant(input[k], input[1], factor, cmd)

RoundTripDone ==
    /\ pass = 2 /\ cmd = "stretch" /\ pc = "done" /\ status = "ok"
    /\ Len(first_input) > 0 /\ NonDecreasing(first_input)

\* C4 as claimed: after Compress with f and Stretch with f on a stream with
\* non-decreasing timestamps, every timestamp is within one microsecond of
\* the original.
C4_RoundTripWithinOne ==
    RoundTripDone =>
        \A k \in 1..Len(output) :
            Abs(Micros(output[k]) - Micros(first_input[k])) <= 1

\* C4 as amended: after Compress with f and Stretch with f on a stream with
\* non-decreasing timestamps, every timestamp is within (f + 1) / 2
\* microseconds of the original.
C4_RoundTripWithinHalfFactor ==
    RoundTripDone =>
        /\ Len(output) = Len(first_input)
        /\ \A k \in 1..Len(output) :
               2 * factor.den * Abs(Micros(output[k]) - Micros(first_input[k]))
                   <= factor.num + factor.den

\* a round trip in which the rounding moved a timestamp
C4_Witness ==
    /\ RoundTripDone
    /\ \E k \in 2..Len(output) : Micros(output[k]) # Micros(first_input[k])

\* C5: every record written by a transform has 0 <= ts_usec < 1_000_000
\* (the input records all have).
C5_MicrosecondsInRange ==
    cmd \in {"compress", "stretch", "dilute", "augment"} =>
        \A k \in 1..Len(output) :
            0 <= output[k].ts_usec /\ output[k].ts_usec < Million

\* a written record whose microseconds overflowed into the seconds
C5_Witness ==
    /\ cmd = "compress" /\ status = "ok"
    /\ \E k \in 2..Len(output) :
           /\ output[k].ts_sec = input[1].ts_sec + 1
           /\ input[k].ts_sec = input[1].ts_sec + 1
           /\ output[k].ts_usec < input[k].ts_usec

DiluteCase ==
    /\ cmd = "dilute" /\ pc = "done"
    /\ NonDecreasing(input)
    /\ 2 <= factor /\ factor <= Len(input)

\* C6: on n records with non-decreasing timestamps and 2 <= k <= n, Dilute
\* succeeds and writes floor(n / k) records, each an input record with its
\* timestamp, in the order of the input.
C6_DiluteSelectsInOrder ==
    DiluteCase =>
        /\ status = "ok"
        /\ Len(output) = Len(input) \div factor
        /\ Len(locals.selected) = Len(output)
        /\ \A k \in 1..Len(output) : output[k] = input[locals.selected[k] + 1]
        /\ \A k \in 1..(Len(output) - 1) :
               locals.selected[k] < locals.selected[k + 1]

\* C7: on n records with non-decreasing timestamps and 2 <= k <= n, the
\* span of what Dilute wrote equals the span of the input.
C7_DiluteKeepsSpan ==
    (DiluteCase /\ status = "ok") => Span(output) = Span(input)

AugmentCase ==
    /\ cmd = "augment" /\ pc = "done"
    /\ Len(input) > 0 /\ factor >= 2

\* C8: on n > 0 records and m >= 2, Augment writes n * m records, and the
\* record at index i has the payload and the two lengths of input record
\* i mod n.
C8_AugmentCycles ==
    AugmentCase =>
        /\ Len(output) = Len(input) * factor
        /\ \A x \in 1..Len(output) :
               SameBody(output[x], input[((x - 1) % Len(input)) + 1])

AugmentSortedDone == AugmentCase /\ status = "ok" /\ NonDecreasing(input)

InsertedAt(s, p) ==
    /\ 1 <= p /\ p <= Len(s) - 1
    /\ StrictlyIncreasing([k \in 1..(Len(s) - 1) |-> IF k <= p THEN s[k] ELSE s[k + 1]])
    /\ Micros(s[p + 1]) < Micros(s[p])

Violations == SelectSeq(log, LAMBDA e : e.what = "disorder")

DetectDone == cmd = "detect" /\ pc = "done"

\* C10 as claimed: no violation on a strictly increasing stream; exactly
\* one, carrying index p, when one out-of-order record was inserted at
\* position p; and the count reported is the length of the stream.
C10_ViolationAtIndexP ==
    DetectDone =>
        /\ StrictlyIncreasing(input) => Violations = << >>
        /\ \A p \in 1..Len(input) :
               InsertedAt(input, p) =>
                   (Len(Violations) = 1 /\ Violations[1].n = p)
        /\ locals.packet_count = Len(input)
        /\ log[Len(log)].level = "info" /\ log[Len(log)].n = Len(input)

\* C10 as amended: the one violation carries the packet number p + 1
\* (packets are numbered from 1).
C10_ViolationAtPacketNumber ==
    DetectDone =>
        /\ StrictlyIncreasing(input) => Violations = << >>
        /\ \A p \in 1..Len(input) :
               InsertedAt(input, p) =>
                   (Len(Violations) = 1 /\ Violations[1].n = p + 1)
        /\ locals.packet_count = Len(input)
        /\ log[Len(log)].level = "info" /\ log[Len(log)].n = Len(input)

\* a finished pass over a stream with a record inserted out of order, not last
C10_Witness ==
    /\ DetectDone
    /\ \E p \in 1..(Len(input) - 2) : InsertedAt(input, p)
    /\ Len(Violations) = 1

C12_InsertionYieldsOneExtra ==
    CompareDone =>
        \A q \in 0..Len(input) : \A X \in CompareRecords :
            (Novel(X, input) /\ comparison = WithRecordAt(input, q, X))
                => /\ locals.extra_packets = << Entry(q, comparison) >>
                   /\ comparison[q + 1] = X
                   /\ locals.missing_packets = << >>

\* C12, its case: a novel record was put before the last record of a
\* reference stream of two or more records, one fingerprint of which occurs
\* twice, and the comparator resynchronized in B.
C12_Witness ==
    /\ CompareDone
    /\ Len(input) >= 2
    /\ \E a, b \in 1..Len(input) :
           a # b /\ Hash(input[a], ignore_timestamp) = Hash(input[b], ignore_timestamp)
    /\ \E q \in 0..(Len(input) - 1) : \E X \in CompareRecords :
           /\ Novel(X, input)
           /\ comparison = WithRecordAt(input, q, X)
           /\ locals.extra_packets = << Entry(q, comparison) >>
    /\ Len(locals.matched) = Len(input)

\* the indices k of the window of max_lookahead records of packets from
\* index from whose fingerprint is h
WindowMatches(packets, from, h) ==
    { k \in from..(Min(from + max_lookahead, Len(packets)) - 1) :
        packets[k + 1].hash = h }

\* C13: an iteration of the main loop at which A[i] and B[j] have different
\* fingerprints, a record of B in the window from j has the fingerprint of
\* A[i], and a record of A in the window from i has the fingerprint of B[j],
\* appends the records of B from j up to the first such k to the extra
\* entries, sets j to k + 1, adds exactly 1 to i, and appends nothing to the
\* missing entries.
C13_ResyncInBFirst ==
    [][ ( /\ InMainLoop
          /\ locals.packets1[locals.i + 1].hash # locals.packets2[locals.j + 1].hash
          /\ WindowMatches(locals.packets2, locals.j,
                           locals.packets1[locals.i + 1].hash) # {}
          /\ WindowMatches(locals.packets1, locals.i,
                           locals.packets2[locals.j + 1].hash) # {} )
        => LET k == Least(WindowMatches(locals.packets2, locals.j,
                                        locals.packets1[locals.i + 1].hash))
           IN  /\ locals'.extra_packets =
                      locals.extra_packets
                          \o [ x \in 1..(k - locals.j) |->
                                  Entry(locals.j + x - 1, comparison) ]
               /\ locals'.j = k + 1
               /\ locals'.i = locals.i + 1
               /\ locals'.missing_packets = locals.missing_packets ]_vars

\* C13, its case: the first iteration found A[0] in B at k > 0 while B[0]
\* was in A at an index of the window from 0, and took B[0..k] as extra.
C13_Witness ==
    /\ cmd = "compare" /\ pc = "main"
    /\ locals.i = 1
    /\ locals.j >= 2
    /\ locals.matched = << <<0, locals.j - 1>> >>
    /\ locals.missing_packets = << >>
    /\ Len(locals.extra_packets) = locals.j - 1
    /\ WindowMatches(locals.packets1, 0, locals.packets2[1].hash) # {}

\* the indices of the entries of a missing or extra list
Indices(entries) == [ x \in 1..Len(entries) |-> entries[x][1] ]

\* the sequence of numbers has each index of 0..(n - 1) at most once, in
\* strictly increasing order
IncreasingIn(idx, n) ==
    /\ \A x \in 1..Len(idx) : idx[x] \in 0..(n - 1)
    /\ \A x \in 1..(Len(idx) - 1) : idx[x] < idx[x + 1]

\* the times v occurs in the sequence
Count(seq, v) == Cardinality({ x \in 1..Len(seq) : seq[x] = v })

\* every index of A is matched or missing and every index of B is matched
\* or extra, each once; the lists are in increasing index order and hold the
\* records of their indices; matched records have equal fingerprints
Accounted ==
    LET missing == Indices(locals.missing_packets)
        extra == Indices(locals.extra_packets)
        matched1 == [ x \in 1..Len(locals.matched) |-> locals.matched[x][1] ]
        matched2 == [ x \in 1..Len(locals.matched) |-> locals.matched[x][2] ]
    IN  /\ \A a \in 0..(Len(input) - 1) :
               Count(matched1, a) + Count(missing, a) = 1
        /\ \A b \in 0..(Len(comparison) - 1) :
               Count(matched2, b) + Count(extra, b) = 1
        /\ IncreasingIn(missing, Len(input))
        /\ IncreasingIn(extra, Len(comparison))
        /\ \A x \in 1..Len(missing) :
               locals.missing_packets[x] = Entry(missing[x], input)
        /\ \A x \in 1..Len(extra) :
               locals.extra_packets[x] = Entry(extra[x], comparison)
        /\ Len(input) - Len(missing) = Len(comparison) - Len(extra)
        /\ \A x \in 1..Len(locals.matched) :
               Hash(input[matched1[x] + 1], ignore_timestamp)
                   = Hash(comparison[matched2[x] + 1], ignore_timestamp)

\* C14: for every pair of streams the comparator returns; each iteration
\* of its main loop adds at least 1 to i and at least 1 to j; and when it
\* returns, every index of A is matched or listed exactly once in missing,
\* every index of B is matched or listed exactly once in extra, missing and
\* extra are each in strictly increasing index order, len(A) - count(missing)
\* = len(B) - count(extra), and the records of every matched pair have equal
\* fingerprints.
C14_TerminatesWithEveryRecordAccounted ==
    /\ <>CompareDone
    /\ [][ InMainLoop => (locals'.i >= locals.i + 1 /\ locals'.j >= locals.j + 1) ]_vars
    /\ [](CompareDone => Accounted)

\* C14, its case: the comparator has returned from streams of three or more
\* records with matched, missing and extra records, the last of them from the
\* tail of B.
C14_Witness ==
    /\ CompareDone
    /\ Len(input) >= 3 /\ Len(comparison) >= 3
    /\ locals.matched # << >>
    /\ locals.missing_packets # << >>
    /\ locals.extra_packets # << >>
    /\ locals.extra_packets[Len(locals.extra_packets)][1] = Len(comparison) - 1
    /\ Accounted

====
